---- MODULE Spec2Model ----
(***************************************************************************)
(* County-split metrics (src/metrics.py).                                  *)
(*                                                                         *)
(* A population mapping is a Python dict from (county, district) pairs to  *)
(* Python ints; it is modelled as a TLA+ function whose domain is a subset *)
(* of Counties \X Districts.  The caller owns one dict object, pops, and   *)
(* calls threshold and the five metrics on it in any order.                *)
(*                                                                         *)
(* Outcomes of a call are records [kind, val]:                             *)
(*   "dict"   val = the returned mapping                                   *)
(*   "int"    val = the returned integer                                   *)
(*   "float"  val = <<n, d>>, the float n/d in lowest terms, d > 0         *)
(*   "real"   val = <<e, t>>, the float 1 / (1 - L/t) where                *)
(*            L = SUM over primes q of e[q] * log2(q)  (irrational score)  *)
(*   "nan"    the float NaN          "inf"  the float +inf                 *)
(*   "error"  val = name of the raised exception                           *)
(* Floats are modelled by the exact value the float expression denotes;    *)
(* within the bounds every integer-valued intermediate is exact.           *)
(***************************************************************************)
EXTENDS Integers, FiniteSets, Sequences, TLC

VARIABLES pops, fn, ret, orig, thr

vars == <<pops, fn, ret, orig, thr>>

(* ---------------- bounds of the model ---------------- *)

MaxPop == 2

MaxEntries == 3

Counties == {"A", "B"}

Districts == {"d1", "d2", "d3"}

DefaultThreshold == 50

Keys == Counties \X Districts

Values == (-1) .. MaxPop

Thresholds == (0 .. MaxPop) \cup {DefaultThreshold}

Mappings ==
  UNION {[D -> Values] : D \in {D \in SUBSET Keys : Cardinality(D) <= MaxEntries}}

(* ---------------- Python / numpy primitives ---------------- *)

Abs(n) == IF n < 0 THEN -n ELSE n

RECURSIVE GCD(_, _)
GCD(a, b) == IF b = 0 THEN a ELSE GCD(b, a % b)

PyInt(n) == [kind |-> "int", val |-> n]

Dict(d) == [kind |-> "dict", val |-> d]

NaN == [kind |-> "nan", val |-> 0]

Inf == [kind |-> "inf", val |-> 0]

ZeroDivisionError == [kind |-> "error", val |-> "ZeroDivisionError"]

None == [kind |-> "none", val |-> 0]

(* the float n / d of two exactly represented numbers, d # 0 *)
Float(n, d) ==
  LET g == GCD(Abs(n), Abs(d))
      s == IF d < 0 THEN -1 ELSE 1
  IN  [kind |-> "float", val |-> <<(s * n) \div g, (s * d) \div g>>]

(* variant: numpy's division, which warns and yields nan or inf *)
TrueDivNumpy(a, b) == IF b = 0 THEN (IF a = 0 THEN NaN ELSE Inf) ELSE Float(a, b)

(* Python's a / b: raises on a zero divisor *)
TrueDiv(a, b) == IF b = 0 THEN ZeroDivisionError ELSE Float(a, b)

(* sum([f[k] for k in S]) *)
RECURSIVE SumOver(_, _)
SumOver(f, S) ==
  IF S = {} THEN 0
  ELSE LET k == CHOOSE x \in S : TRUE IN f[k] + SumOver(f, S \ {k})

(* max([f[k] for k in S]), S non-empty *)
MaxOver(f, S) == LET k == CHOOSE x \in S : \A y \in S : f[y] <= f[x] IN f[k]

(* d.pop(key, None) *)
dict_pop(d, key) == [k \in (DOMAIN d) \ {key} |-> d[k]]

(* ---------------- threshold (metrics.py 5-22) ---------------- *)

(* variant: the comparison slipped to <= *)
keys_to_remove_le(p, t) == {key \in DOMAIN p : p[key] <= t}

keys_to_remove(p, t) == {key \in DOMAIN p : p[key] < t}

RECURSIVE pop_all(_, _)
pop_all(d, keys) ==
  IF keys = {} THEN d
  ELSE LET key == CHOOSE x \in keys : TRUE
       IN  pop_all(dict_pop(d, key), keys \ {key})

threshold(p, t) == pop_all(p, keys_to_remove(p, t))

(* ---------------- counties_split, county_intersections ---------------- *)

counties(p) == {key[1] : key \in DOMAIN p}

county_keys(p, county) == {key \in DOMAIN p : key[1] = county}

(* variant: a split county adds its number of keys instead of 1 *)
counties_split_keys(p) ==
  PyInt(SumOver([county \in counties(p) |->
                   IF Cardinality(county_keys(p, county)) > 1
                   THEN Cardinality(county_keys(p, county)) ELSE 0],
                counties(p)))

(* variant: every county counted, split or not (>= 1 for > 1) *)
counties_split_ge(p) ==
  PyInt(Cardinality({county \in counties(p) :
                      Cardinality(county_keys(p, county)) >= 1}))

counties_split(p) ==
  PyInt(Cardinality({county \in counties(p) :
                      Cardinality(county_keys(p, county)) > 1}))

(* variant: counties counted instead of (county, district) keys *)
county_intersections_counties(p) == PyInt(Cardinality(counties(p)))

county_intersections(p) == PyInt(Cardinality(DOMAIN p))

(* ---------------- preserved_pairs (metrics.py 42-70) ---------------- *)

(* variant: sign slip, i * (i + 1) / 2 *)
pairs_plus(i) == (i * (i + 1)) \div 2

(* i * (i - 1) / 2 : i * (i - 1) is even and >= 0 for every int i *)
pairs(i) == (i * (i - 1)) \div 2

(* variant: the entries grouped by county before the pairs are counted *)
same_county_same_district_grouped(p) ==
  SumOver([county \in counties(p) |->
             pairs(SumOver(p, county_keys(p, county)))], counties(p))

same_county_same_district(p) ==
  SumOver([key \in DOMAIN p |-> pairs(p[key])], DOMAIN p)

(* variant: the county's largest intersection taken for its population *)
county_pops_max(p) ==
  [county \in {key[1] : key \in DOMAIN p} |->
     LET S == {key \in DOMAIN p : key[1] = county}
         k == CHOOSE x \in S : \A y \in S : p[y] <= p[x]
     IN  p[k]]

county_pops(p) ==
  [county \in counties(p) |-> SumOver(p, county_keys(p, county))]

(* variant: pairs counted over the whole population, not per county *)
same_county_all(p) == pairs(SumOver(p, DOMAIN p))

same_county(p) ==
  SumOver([county \in counties(p) |-> pairs(county_pops(p)[county])], counties(p))

preserved_pairs(p) == TrueDiv(same_county_same_district(p), same_county(p))

(* ---------------- largest_intersection (metrics.py 73-101) ---------------- *)

(* variant: the filter on the county forgotten, the maximum taken over all keys *)
county_maxes_global(p) ==
  [county \in counties(p) |-> MaxOver(p, DOMAIN p)]

county_maxes(p) ==
  [county \in counties(p) |-> MaxOver(p, county_keys(p, county))]

largest_intersection(p) ==
  TrueDiv(SumOver(county_maxes(p), counties(p)), SumOver(p, DOMAIN p))

(* ---------------- min_entropy (metrics.py 104-130) ---------------- *)

(* the primes that can divide a population or a county size of the model *)
Primes ==
  {q \in 2 .. (MaxPop * Cardinality(Districts)) : \A r \in 2 .. (q - 1) : q % r # 0}

ZeroVec == [q \in Primes |-> 0]

(* multiplicity of the prime q in n >= 1 *)
RECURSIVE Mult(_, _)
Mult(q, n) == IF n % q = 0 THEN 1 + Mult(q, n \div q) ELSE 0

(* np.log2(a / b) for a / b > 0, as the exponent vector e with             *)
(* log2(a / b) = SUM e[q] * log2(q); exactly 0.0 when a = b                *)
log2(a, b) == [q \in Primes |-> Mult(q, Abs(a)) - Mult(q, Abs(b))]

RECURSIVE VecSum(_, _)
VecSum(f, S) ==
  IF S = {} THEN ZeroVec
  ELSE LET k == CHOOSE x \in S : TRUE
           r == VecSum(f, S \ {k})
       IN  [q \in Primes |-> f[k][q] + r[q]]

county_size(p, county) == SumOver(p, county_keys(p, county))

(* pops[key] / county_size raises when the county's size is 0 *)
entropy_raises(p) == \E county \in counties(p) : county_size(p, county) = 0

(* np.log2 gives -inf at 0 and nan below 0 (a warning, no exception);      *)
(* 0 * -inf and every product with nan are nan                             *)
entropy_is_nan(p) ==
  \E key \in DOMAIN p : p[key] = 0 \/ p[key] * county_size(p, key[1]) < 0

county_entropy(p, county) ==
  VecSum([key \in county_keys(p, county) |->
            [q \in Primes |-> p[key] * log2(p[key], county_size(p, county))[q]]],
         county_keys(p, county))

county_entropies(p) ==
  VecSum([county \in counties(p) |-> county_entropy(p, county)], counties(p))

RECURSIVE VecGCDOver(_, _)
VecGCDOver(e, S) ==
  IF S = {} THEN 0
  ELSE LET q == CHOOSE x \in S : TRUE IN GCD(Abs(e[q]), VecGCDOver(e, S \ {q}))

VecGCD(e) == VecGCDOver(e, Primes)

(* 1 / (1 + (-1) * L / t) for L = SUM e[q] * log2(q), t an int *)
entropy_score(e, t) ==
  IF t = 0 THEN (IF e = ZeroVec THEN NaN ELSE Float(0, 1))
  ELSE IF \A q \in Primes \ {2} : e[q] = 0
       THEN (IF t - e[2] = 0 THEN Inf ELSE Float(t, t - e[2]))
       ELSE LET g == GCD(Abs(t), VecGCD(e))
                s == IF t < 0 THEN -1 ELSE 1
            IN  [kind |-> "real",
                 val |-> <<[q \in Primes |-> (s * e[q]) \div g], (s * t) \div g>>]

min_entropy(p) ==
  IF DOMAIN p = {} THEN ZeroDivisionError
  ELSE IF entropy_raises(p) THEN ZeroDivisionError
  ELSE IF entropy_is_nan(p) THEN NaN
  ELSE entropy_score(county_entropies(p), SumOver(p, DOMAIN p))

(* ---------------- the caller ---------------- *)

Metrics ==
  {"counties_split", "county_intersections", "preserved_pairs",
   "largest_intersection", "min_entropy"}

Init ==
  /\ pops \in Mappings
  /\ orig = pops
  /\ thr = {}
  /\ fn = "none"
  /\ ret = None

(* variant: threshold filters a copy and leaves the caller's dict alone *)
ThresholdCopy(t) ==
  /\ orig' = pops
  /\ thr' = {t}
  /\ pops' = pops
  /\ ret' = Dict(threshold(pops, t))
  /\ fn' = "threshold"

(* threshold(pops, t): removes the keys from the caller's dict and returns *)
(* that same dict object                                                   *)
Threshold(t) ==
  /\ orig' = pops
  /\ thr' = {t}
  /\ pops' = threshold(pops, t)
  /\ ret' = Dict(pops')
  /\ fn' = "threshold"

CountiesSplit ==
  /\ fn' = "counties_split"
  /\ ret' = counties_split(pops)
  /\ UNCHANGED <<pops, orig, thr>>

CountyIntersections ==
  /\ fn' = "county_intersections"
  /\ ret' = county_intersections(pops)
  /\ UNCHANGED <<pops, orig, thr>>

PreservedPairs ==
  /\ fn' = "preserved_pairs"
  /\ ret' = preserved_pairs(pops)
  /\ UNCHANGED <<pops, orig, thr>>

LargestIntersection ==
  /\ fn' = "largest_intersection"
  /\ ret' = largest_intersection(pops)
  /\ UNCHANGED <<pops, orig, thr>>

(* variant: min_entropy drops the zero-population entries from the caller's dict *)
MinEntropyInPlace ==
  /\ fn' = "min_entropy"
  /\ pops' = [k \in {x \in DOMAIN pops : pops[x] # 0} |-> pops[k]]
  /\ ret' = min_entropy(pops')
  /\ UNCHANGED <<orig, thr>>

MinEntropy ==
  /\ fn' = "min_entropy"
  /\ ret' = min_entropy(pops)
  /\ UNCHANGED <<pops, orig, thr>>

Next ==
  \/ \E t \in Thresholds : Threshold(t)
  \/ CountiesSplit
  \/ CountyIntersections
  \/ PreservedPairs
  \/ LargestIntersection
  \/ MinEntropy

Spec == Init /\ [][Next]_vars

(* ======================= properties ======================= *)

NonNegative(p) == \A k \in DOMAIN p : p[k] >= 0

HasNegative(p) == \E k \in DOMAIN p : p[k] < 0

(* districts that share an entry with county c *)
Partners(p, c) == {d \in Districts : <<c, d>> \in DOMAIN p}

(* every county id appears in exactly one key *)
NoSplit(p) == \A c \in Counties : Cardinality(Partners(p, c)) <= 1

One == [kind |-> "float", val |-> <<1, 1>>]

(* C1: threshold(pops, t) returns a mapping holding exactly the entries of  *)
(* pops whose value is >= t, each with its original value; a value equal to *)
(* t is kept, every value below t is removed.                               *)
C1_ThresholdKeepsAtLeast ==
  fn = "threshold" =>
    \A t \in thr :
      /\ ret.kind = "dict"
      /\ DOMAIN ret.val = {k \in DOMAIN orig : orig[k] >= t}
      /\ \A k \in DOMAIN ret.val : ret.val[k] = orig[k]

C1_Witness ==
  /\ fn = "threshold"
  /\ ret.kind = "dict"
  /\ \E t \in thr : \E k1, k2 \in DOMAIN orig :
       /\ orig[k1] = t /\ k1 \in DOMAIN ret.val
       /\ orig[k2] < t /\ k2 \notin DOMAIN ret.val

(* C2 as stated: after threshold(pops, t) the caller's mapping holds the    *)
(* same entries with the same values as before the call.                    *)
C2_CallerMappingUntouched == fn = "threshold" => pops = orig

(* C2 amended: threshold works in place. After the call the caller's        *)
(* mapping is the returned mapping; it has lost exactly the entries whose   *)
(* value was below t, gained none, and its other entries keep their values, *)
(* so it is unchanged exactly when no entry was below t.                    *)
C2_ThresholdInPlace ==
  fn = "threshold" =>
    \A t \in thr :
      /\ ret.kind = "dict" /\ pops = ret.val
      /\ DOMAIN pops \subseteq DOMAIN orig
      /\ \A k \in DOMAIN pops : pops[k] = orig[k]
      /\ (DOMAIN orig) \ (DOMAIN pops) = {k \in DOMAIN orig : orig[k] < t}
      /\ (pops = orig) <=> (\A k \in DOMAIN orig : orig[k] >= t)

C2_Witness ==
  /\ fn = "threshold"
  /\ pops # orig
  /\ DOMAIN pops # {}
  /\ ret.kind = "dict" /\ pops = ret.val

C4_CountiesSplitCount ==
  fn = "counties_split" =>
    ret = PyInt(Cardinality(
            {c \in Counties : \E d1, d2 \in Districts :
               /\ d1 # d2
               /\ <<c, d1>> \in DOMAIN pops
               /\ <<c, d2>> \in DOMAIN pops}))

C4_Witness ==
  /\ fn = "counties_split"
  /\ \E c1, c2 \in Counties :
       /\ Cardinality(Partners(pops, c1)) >= 2
       /\ Cardinality(Partners(pops, c2)) = 1
  /\ ret = PyInt(1)

(* C5: on the empty mapping preserved_pairs, largest_intersection and       *)
(* min_entropy each end in a raised exception and return no value.          *)
C5_EmptyMappingRaises ==
  (fn \in {"preserved_pairs", "largest_intersection", "min_entropy"}
     /\ DOMAIN pops = {}) =>
    ret.kind = "error"

C5_Witness ==
  /\ fn = "largest_intersection"
  /\ DOMAIN pops = {}
  /\ ret = ZeroDivisionError

(* C6: on a non-empty mapping of non-negative populations in which every    *)
(* county's total is <= 1, preserved_pairs ends in an error; it returns     *)
(* neither 0 nor 1 nor NaN.                                                 *)
C6_DegeneratePairsRaise ==
  (/\ fn = "preserved_pairs"
   /\ DOMAIN pops # {}
   /\ NonNegative(pops)
   /\ \A c \in Counties :
        SumOver(pops, {k \in DOMAIN pops : k[1] = c}) <= 1) =>
    ret.kind = "error"

C6_Witness ==
  /\ fn = "preserved_pairs"
  /\ NonNegative(pops)
  /\ \E k1, k2 \in DOMAIN pops : k1[1] # k2[1] /\ pops[k1] = 1 /\ pops[k2] = 1
  /\ \A c \in Counties :
        SumOver(pops, {k \in DOMAIN pops : k[1] = c}) <= 1
  /\ ret = ZeroDivisionError

(* the mapping without its zero-population entries *)
WithoutZeros(p) == [k \in {x \in DOMAIN p : p[x] # 0} |-> p[k]]

(* C7: on a mapping with positive total population that contains an entry   *)
(* of population 0, min_entropy does not fail and returns the score of the  *)
(* mapping with the zero-population entries removed.                        *)
C7_ZeroEntryContributesNothing ==
  (/\ fn = "min_entropy"
   /\ SumOver(pops, DOMAIN pops) > 0
   /\ \E k \in DOMAIN pops : pops[k] = 0) =>
    /\ ret.kind \notin {"error", "nan"}
    /\ ret = min_entropy(WithoutZeros(pops))

(* C8: threshold and every metric, given a mapping that contains a negative *)
(* population value, end in an error rather than return a mapping or score. *)
C8_NegativeRejected ==
  (\/ fn = "threshold" /\ HasNegative(orig)
   \/ fn \in Metrics /\ HasNegative(pops)) =>
    ret.kind = "error"

(* C9 as stated: preserved_pairs(pops) is 1.0 whenever every county id      *)
(* appears in exactly one key of pops.                                      *)
C9_NoSplitGivesOne ==
  (fn = "preserved_pairs" /\ NoSplit(pops)) => ret = One

(* C9 amended: when every county id appears in exactly one key of pops,     *)
(* preserved_pairs(pops) is 1.0 if some entry's population is neither 0 nor *)
(* 1, and ends in a ZeroDivisionError otherwise (the empty mapping          *)
(* included).                                                               *)
C9_NoSplitGivesOneOrRaises ==
  (fn = "preserved_pairs" /\ NoSplit(pops)) =>
    IF \E k \in DOMAIN pops : pops[k] \notin {0, 1}
    THEN ret = One
    ELSE ret = ZeroDivisionError

C9_Witness ==
  /\ fn = "preserved_pairs"
  /\ NoSplit(pops)
  /\ Cardinality(DOMAIN pops) >= 2
  /\ \E k \in DOMAIN pops : pops[k] >= 2
  /\ ret = One

(* C10: on a mapping of non-negative populations on which preserved_pairs   *)
(* returns a value, the value lies in [0, 1]: the sum over entries of       *)
(* p(p-1)/2 is >= 0 and at most the sum over counties of P(P-1)/2.          *)
C10_PreservedPairsInUnitInterval ==
  (fn = "preserved_pairs" /\ NonNegative(pops) /\ ret.kind # "error") =>
    /\ ret.kind = "float"
    /\ 0 <= ret.val[1] /\ ret.val[1] <= ret.val[2]
    /\ 0 <= same_county_same_district(pops)
    /\ same_county_same_district(pops) <= same_county(pops)

C10_Witness ==
  /\ fn = "preserved_pairs"
  /\ NonNegative(pops)
  /\ \E c \in Counties : Cardinality(Partners(pops, c)) >= 2
  /\ ret.kind = "float"
  /\ 0 < ret.val[1] /\ ret.val[1] < ret.val[2]

(* C11 as stated: largest_intersection(pops) is 1.0 whenever every county   *)
(* id appears in exactly one key of pops.                                   *)
C11_NoSplitLargestIsOne ==
  (fn = "largest_intersection" /\ NoSplit(pops)) => ret = One

(* C11 amended: when every county id appears in exactly one key of pops,    *)
(* largest_intersection(pops) is 1.0 if the total population is not 0, and  *)
(* ends in a ZeroDivisionError if it is 0 (the empty mapping included).     *)
C11_NoSplitLargestIsOneOrRaises ==
  (fn = "largest_intersection" /\ NoSplit(pops)) =>
    IF SumOver(pops, DOMAIN pops) # 0
    THEN ret = One
    ELSE ret = ZeroDivisionError

C11_Witness ==
  /\ fn = "largest_intersection"
  /\ NoSplit(pops)
  /\ Cardinality(DOMAIN pops) >= 2
  /\ NonNegative(pops)
  /\ ret = One

(* C12, on the mappings for which the score is defined (positive total      *)
(* population): min_entropy(pops) is 1.0 whenever every county id appears   *)
(* in exactly one key of pops.                                              *)
C12_NoSplitEntropyIsOne ==
  (/\ fn = "min_entropy"
   /\ NoSplit(pops)
   /\ SumOver(pops, DOMAIN pops) > 0) =>
    ret = One

(* number of distinct county ids among the keys *)
DistinctCounties(p) ==
  Cardinality({c \in Counties : \E d \in Districts : <<c, d>> \in DOMAIN p})

(* C13: counties_split(pops) is 0 exactly when county_intersections(pops)   *)
(* is the number of distinct county ids among the keys, and always          *)
(* county_intersections(pops) >= distinct counties + counties_split(pops).  *)
C13_SplitsAndIntersections ==
  (fn \in {"counties_split", "county_intersections"}) =>
    LET split == IF fn = "counties_split" THEN ret ELSE counties_split(pops)
        inter == IF fn = "county_intersections" THEN ret
                 ELSE county_intersections(pops)
    IN  /\ split.kind = "int" /\ inter.kind = "int"
        /\ (split.val = 0) <=> (inter.val = DistinctCounties(pops))
        /\ inter.val >= DistinctCounties(pops) + split.val

C13_Witness ==
  /\ fn = "counties_split"
  /\ ret = PyInt(1)
  /\ DistinctCounties(pops) = 2
  /\ county_intersections(pops) = PyInt(3)

(* pops with k people of entry (c, d) moved to a new entry (c, d2) *)
Spread(p, c, d, d2, k) ==
  [key \in (DOMAIN p) \cup {<<c, d2>>} |->
     IF key = <<c, d>> THEN p[key] - k
     ELSE IF key = <<c, d2>> THEN k
     ELSE p[key]]

(* r1 < r2 for two float outcomes *)
FloatLess(r1, r2) == r1.val[1] * r2.val[2] < r2.val[1] * r1.val[2]

(* C14: where preserved_pairs is defined on pops, moving k people,          *)
(* 0 < k < p, out of an entry (c, d) of population p into a new entry       *)
(* (c, d2) strictly lowers preserved_pairs.                                 *)
C14_SpreadingLowersPreservedPairs ==
  (fn = "preserved_pairs" /\ ret.kind = "float") =>
    \A key \in DOMAIN pops : \A d2 \in Districts :
      \A k \in 1 .. (pops[key] - 1) :
        (<<key[1], d2>> \notin DOMAIN pops) =>
          LET r == preserved_pairs(Spread(pops, key[1], key[2], d2, k))
          IN  r.kind = "float" /\ FloatLess(r, ret)

C14_Witness ==
  /\ fn = "preserved_pairs"
  /\ ret.kind = "float"
  /\ Cardinality(DOMAIN pops) >= 2
  /\ \E key \in DOMAIN pops : \E d2 \in Districts :
       \E k \in 1 .. (pops[key] - 1) :
         /\ <<key[1], d2>> \notin DOMAIN pops
         /\ LET r == preserved_pairs(Spread(pops, key[1], key[2], d2, k))
            IN  r.kind = "float" /\ r.val[1] > 0 /\ FloatLess(r, ret)

(* the mapping the caller holds since its last threshold call, or since     *)
(* the start when it made none                                              *)
Held == IF thr = {} THEN orig
        ELSE LET t == CHOOSE x \in thr : TRUE
             IN  [k \in {x \in DOMAIN orig : orig[x] >= t} |-> orig[k]]

MetricResult(f, p) ==
  CASE f = "counties_split" -> counties_split(p)
    [] f = "county_intersections" -> county_intersections(p)
    [] f = "preserved_pairs" -> preserved_pairs(p)
    [] f = "largest_intersection" -> largest_intersection(p)
    [] f = "min_entropy" -> min_entropy(p)

(* C15: no metric call changes the mapping: after any sequence of metric    *)
(* calls, also ones that raised, pops holds the entries and values it held  *)
(* before them, and the last metric's result is its result on that mapping. *)
C15_MetricsLeaveMapping ==
  (fn \in Metrics) => (pops = Held /\ ret = MetricResult(fn, Held))

C15_Witness ==
  /\ fn = "min_entropy"
  /\ ret.kind \in {"error", "nan"}
  /\ \E k \in DOMAIN pops : pops[k] = 0
  /\ Cardinality(DOMAIN pops) >= 2
  /\ pops = Held

====
